---- MODULE Spec2Model ----
(***************************************************************************)
(* Model of homework.py: the Training hierarchy (Running, SportsWalking,   *)
(* Swimming), the InfoMessage value object, the read_package dispatcher    *)
(* and the driver loop of the __main__ block.                              *)
(*                                                                         *)
(* Numbers are exact rationals [n, d] in lowest terms with d > 0.  The     *)
(* decimal literals of the source are the rationals they denote (0.65 is   *)
(* 13/20); the rounding of binary floating point is not modelled.          *)
(*                                                                         *)
(* A call returns an outcome [raised, value, self]: the name of the        *)
(* exception it raised ("" when it returned), the value returned, and the  *)
(* receiver's attributes as the call left them.                            *)
(***************************************************************************)
EXTENDS Integers, Sequences, FiniteSets, TLC

VARIABLES packages, idx, pc, training, rp, raised, output,
          lastCall, prevCall, nCalls

vars == <<packages, idx, pc, training, rp, raised, output,
          lastCall, prevCall, nCalls>>

----------------------------------------------------------------------------
(* Bounds of the model *)

MaxPackages == 3

MaxDataLen == 6

MaxCalls == 3

----------------------------------------------------------------------------
(* Rational arithmetic *)

Abs(i) == IF i < 0 THEN -i ELSE i

RECURSIVE GCD(_, _)
GCD(a, b) == IF b = 0 THEN a ELSE GCD(b, a % b)

Q(n, d) ==
    LET g == GCD(Abs(n), Abs(d))
        s == IF d < 0 THEN -1 ELSE 1
    IN  [n |-> (s * n) \div g, d |-> (s * d) \div g]

I(i) == [n |-> i, d |-> 1]

Zero == I(0)

\* Common factors are divided out before multiplying, to keep the
\* intermediate integers small.
QAdd(a, b) ==
    LET g == GCD(a.d, b.d)
    IN  Q(a.n * (b.d \div g) + b.n * (a.d \div g), (a.d \div g) * b.d)

QSub(a, b) == QAdd(a, [n |-> -b.n, d |-> b.d])

QMul(a, b) ==
    LET g1 == GCD(Abs(a.n), b.d)
        g2 == GCD(Abs(b.n), a.d)
    IN  Q((a.n \div g1) * (b.n \div g2), (a.d \div g2) * (b.d \div g1))

\* b is not zero.
QDiv(a, b) ==
    QMul(a, IF b.n < 0 THEN [n |-> -b.d, d |-> -b.n]
                       ELSE [n |-> b.d, d |-> b.n])

QLess(a, b) == a.n * b.d < b.n * a.d

\* Python's //: the floor (toward negative infinity) of the quotient.
QFloorDiv(a, b) == LET q == QDiv(a, b) IN I(q.n \div q.d)

----------------------------------------------------------------------------
(* Outcomes of calls *)

None == [cls |-> "NoneType"]

Ret(v, self) == [raised |-> "", value |-> v, self |-> self]

Raise(e, self) == [raised |-> e, value |-> None, self |-> self]

\* An exception raised by a call propagates out of the caller; otherwise the
\* caller goes on with the call's outcome.
Try(out, Body(_)) == IF out.raised # "" THEN out ELSE Body(out)

----------------------------------------------------------------------------
(* class Training *)

M_IN_KM == 1000

MIN_IN_HOUR == 60

\* The class attribute LEN_STEP as an instance of class cls resolves it:
\* Swimming shadows the base value.
LEN_STEP(cls) == IF cls = "Swimming" THEN Q(138, 100) ELSE Q(65, 100)

\* Training.__init__, run for an instance of class cls with the positional
\* arguments args; binding the arguments to (action, duration, weight) fails
\* with TypeError unless there are exactly three.
Training__init__(cls, args) ==
    IF Len(args) # 3
    THEN Raise("TypeError", None)
    ELSE Ret(None, [cls |-> cls, action |-> args[1], duration |-> args[2],
                    weight |-> args[3]])

\* Mutant: the distance is stored over the step count.
Training_get_distance_inplace(self) ==
    Ret(QDiv(QMul(self.action, LEN_STEP(self.cls)), I(M_IN_KM)),
        [self EXCEPT !.action = QDiv(QMul(self.action, LEN_STEP(self.cls)),
                                     I(M_IN_KM))])

Training_get_distance(self) ==
    Ret(QDiv(QMul(self.action, LEN_STEP(self.cls)), I(M_IN_KM)), self)

Swimming_get_distance(self) ==
    Ret(QDiv(QMul(self.action, LEN_STEP(self.cls)), I(M_IN_KM)), self)

\* self.get_distance(): Swimming overrides, the others inherit.
get_distance(self) ==
    IF self.cls = "Swimming" THEN Swimming_get_distance(self)
    ELSE Training_get_distance(self)

Training_get_mean_speed(self) ==
    Try(get_distance(self), LAMBDA dist :
        IF dist.self.duration = Zero
        THEN Raise("ZeroDivisionError", dist.self)
        ELSE Ret(QDiv(dist.value, dist.self.duration), dist.self))

\* Mutant: a zero duration yields speed 0 instead of raising.
Swimming_get_mean_speed_guarded(self) ==
    IF self.duration = Zero
    THEN Ret(Zero, self)
    ELSE Ret(QDiv(QDiv(QMul(self.length_pool, self.count_pool), I(M_IN_KM)),
                  self.duration), self)

\* Mutant: no override, the speed is the stroke distance over the duration.
Swimming_get_mean_speed_inherited(self) ==
    Try(get_distance(self), LAMBDA dist :
        IF dist.self.duration = Zero
        THEN Raise("ZeroDivisionError", dist.self)
        ELSE Ret(QDiv(dist.value, dist.self.duration), dist.self))

Swimming_get_mean_speed(self) ==
    LET distance_in_meters == QMul(self.length_pool, self.count_pool)
        distance_in_km == QDiv(distance_in_meters, I(M_IN_KM))
    IN  IF self.duration = Zero
        THEN Raise("ZeroDivisionError", self)
        ELSE Ret(QDiv(distance_in_km, self.duration), self)

\* self.get_mean_speed(): Swimming overrides, the others inherit.
get_mean_speed(self) ==
    IF self.cls = "Swimming" THEN Swimming_get_mean_speed(self)
    ELSE Training_get_mean_speed(self)

Training_get_spent_calories(self) == Raise("NotImplementedError", self)

----------------------------------------------------------------------------
(* class Running *)

RUN_COEFF_1 == 18

RUN_COEFF_2 == 20

\* Mutant: the second coefficient is subtracted from the speed, not from
\* the product.
Running_get_spent_calories_precedence(self) ==
    Try(get_mean_speed(self), LAMBDA speed :
        Ret(QMul(QDiv(QMul(QMul(I(RUN_COEFF_1),
                                QSub(speed.value, I(RUN_COEFF_2))),
                           speed.self.weight), I(M_IN_KM)),
                 QMul(speed.self.duration, I(MIN_IN_HOUR))), speed.self))

Running_get_spent_calories(self) ==
    Try(get_mean_speed(self), LAMBDA speed :
        LET s == speed.self
            speed_and_coeff ==
                QMul(QSub(QMul(I(RUN_COEFF_1), speed.value),
                          I(RUN_COEFF_2)), s.weight)
            duration_in_minutes == QMul(s.duration, I(MIN_IN_HOUR))
        IN  Ret(QMul(QDiv(speed_and_coeff, I(M_IN_KM)),
                     duration_in_minutes), s))

----------------------------------------------------------------------------
(* class SportsWalking *)

WLK_COEFF_1 == Q(35, 1000)

WLK_COEFF_2 == Q(29, 1000)

SportsWalking__init__(cls, args) ==
    IF Len(args) # 4
    THEN Raise("TypeError", None)
    ELSE Try(Training__init__(cls, <<args[1], args[2], args[3]>>),
             LAMBDA super : Ret(None, super.self @@ [height |-> args[4]]))

\* Mutant: ordinary division of the squared speed by the height.
SportsWalking_get_spent_calories_truediv(self) ==
    Try(get_mean_speed(self), LAMBDA speed :
        IF speed.self.height = Zero
        THEN Raise("ZeroDivisionError", speed.self)
        ELSE Ret(QMul(QAdd(QMul(WLK_COEFF_1, self.weight),
                           QMul(QDiv(QMul(speed.value, speed.value),
                                     speed.self.height),
                                QMul(WLK_COEFF_2, self.weight))),
                      QMul(speed.self.duration, I(MIN_IN_HOUR))),
                 speed.self))

SportsWalking_get_spent_calories(self) ==
    LET weight_and_coeff_1 == QMul(WLK_COEFF_1, self.weight)
        weight_and_coeff_2 == QMul(WLK_COEFF_2, self.weight)
    IN  Try(get_mean_speed(self), LAMBDA speed :
            LET s == speed.self
            IN  IF s.height = Zero
                THEN Raise("ZeroDivisionError", s)
                ELSE LET mean_speed_and_weight ==
                             QFloorDiv(QMul(speed.value, speed.value),
                                       s.height)
                         duration_in_minutes ==
                             QMul(s.duration, I(MIN_IN_HOUR))
                     IN  Ret(QMul(QAdd(weight_and_coeff_1,
                                       QMul(mean_speed_and_weight,
                                            weight_and_coeff_2)),
                                  duration_in_minutes), s))

----------------------------------------------------------------------------
(* class Swimming *)

SWM_COEFF_1 == Q(11, 10)

SWM_COEFF_2 == 2

\* Mutant: the two pool arguments are bound the other way round.
Swimming__init__swapped(cls, args) ==
    IF Len(args) # 5
    THEN Raise("TypeError", None)
    ELSE Try(Training__init__(cls, <<args[1], args[2], args[3]>>),
             LAMBDA super : Ret(None, super.self @@ [length_pool |-> args[5],
                                                     count_pool |-> args[4]]))

Swimming__init__(cls, args) ==
    IF Len(args) # 5
    THEN Raise("TypeError", None)
    ELSE Try(Training__init__(cls, <<args[1], args[2], args[3]>>),
             LAMBDA super : Ret(None, super.self @@ [length_pool |-> args[4],
                                                     count_pool |-> args[5]]))

Swimming_get_spent_calories(self) ==
    Try(get_mean_speed(self), LAMBDA speed :
        LET mean_speed_and_coeff == QAdd(speed.value, SWM_COEFF_1)
        IN  Ret(QMul(QMul(mean_speed_and_coeff, I(SWM_COEFF_2)),
                     speed.self.weight), speed.self))

----------------------------------------------------------------------------
(* Method resolution and the inherited show_training_info *)

\* Mutant: Running defines no get_spent_calories of its own.
get_spent_calories_no_override(self) ==
    CASE self.cls = "SportsWalking" -> SportsWalking_get_spent_calories(self)
      [] self.cls = "Swimming" -> Swimming_get_spent_calories(self)
      [] OTHER -> Training_get_spent_calories(self)

\* self.get_spent_calories(): the class's own definition when it has one,
\* the base class's otherwise.
get_spent_calories(self) ==
    CASE self.cls = "Running" -> Running_get_spent_calories(self)
      [] self.cls = "SportsWalking" -> SportsWalking_get_spent_calories(self)
      [] self.cls = "Swimming" -> Swimming_get_spent_calories(self)
      [] OTHER -> Training_get_spent_calories(self)

InfoMessage(training_type, duration, distance, speed, calories) ==
    [training_type |-> training_type, duration |-> duration,
     distance |-> distance, speed |-> speed, calories |-> calories]

\* The keyword arguments are evaluated in source order; the first call that
\* raises ends the evaluation.
show_training_info(self) ==
    Try(get_distance(self), LAMBDA dist :
    Try(get_mean_speed(dist.self), LAMBDA speed :
    Try(get_spent_calories(speed.self), LAMBDA cal :
        Ret(InfoMessage(self.cls, self.duration, dist.value, speed.value,
                        cal.value), cal.self))))

----------------------------------------------------------------------------
(* InfoMessage.get_message *)

\* The format specification .3f: sign, integer part and three decimals of
\* the value rounded to the nearest thousandth, ties to the even one.
Fmt3(q) ==
    LET a == [n |-> Abs(q.n), d |-> q.d]
        num == a.n * 1000
        fl == num \div a.d
        rem == num % a.d
        m == IF 2 * rem > a.d \/ (2 * rem = a.d /\ fl % 2 = 1)
             THEN fl + 1 ELSE fl
    IN  <<IF q.n < 0 THEN "-" ELSE "", m \div 1000, m % 1000>>

get_message(info) ==
    [training_type |-> info.training_type,
     duration |-> Fmt3(info.duration),
     distance |-> Fmt3(info.distance),
     speed |-> Fmt3(info.speed),
     calories |-> Fmt3(info.calories)]

----------------------------------------------------------------------------
(* read_package *)

training_name ==
    [SWM |-> "Swimming", RUN |-> "Running", WLK |-> "SportsWalking"]

\* cls(*data): the class's __init__ (Running inherits Training's).
Construct(cls, data) ==
    CASE cls = "Swimming" -> Swimming__init__(cls, data)
      [] cls = "SportsWalking" -> SportsWalking__init__(cls, data)
      [] OTHER -> Training__init__(cls, data)

\* The outcome of read_package: raised, the record returned, and the
\* constructors invoked on the way.
Constructed(cls, new) ==
    [raised |-> new.raised,
     value |-> IF new.raised = "" THEN new.self ELSE None,
     calls |-> <<cls>>]

\* Mutant: an unknown code falls back to Running.
read_package_fallback(workout_type, data) ==
    IF workout_type \notin DOMAIN training_name
    THEN Constructed("Running", Construct("Running", data))
    ELSE Constructed(training_name[workout_type],
                     Construct(training_name[workout_type], data))

\* Mutant: the argument count is validated before any constructor is called.
read_package_validating(workout_type, data) ==
    IF workout_type \notin DOMAIN training_name
    THEN [raised |-> "NotImplementedError", value |-> None, calls |-> <<>>]
    ELSE IF Construct(training_name[workout_type], data).raised # ""
         THEN [raised |-> "TypeError", value |-> None, calls |-> <<>>]
         ELSE Constructed(training_name[workout_type],
                          Construct(training_name[workout_type], data))

read_package(workout_type, data) ==
    IF workout_type \notin DOMAIN training_name
    THEN [raised |-> "NotImplementedError", value |-> None, calls |-> <<>>]
    ELSE Constructed(training_name[workout_type],
                     Construct(training_name[workout_type], data))

----------------------------------------------------------------------------
(* main and the driver loop of the __main__ block *)

\* main(training) with the lines printed so far: the summary is rendered
\* and its line printed after them, unless show_training_info raises.
Printed(info, stdout) ==
    IF info.raised # ""
    THEN [raised |-> info.raised, self |-> info.self, stdout |-> stdout]
    ELSE [raised |-> "", self |-> info.self,
          stdout |-> Append(stdout, get_message(info.value))]

main(t, stdout) == Printed(show_training_info(t), stdout)

NoCall == [op |-> "", raised |-> "", value |-> None]

NoOutcome == [raised |-> "", value |-> None, calls |-> <<>>]

\* The packages of the source's __main__ block, and entries that fail in
\* each of the ways an entry can.
SourcePackages ==
    << <<"SWM", <<I(720), I(1), I(80), I(25), I(40)>> >>,
       <<"RUN", <<I(15000), I(1), I(75)>> >>,
       <<"WLK", <<I(9000), I(1), I(75), I(180)>> >> >>

DriverPackages ==
    { SourcePackages[i] : i \in 1..Len(SourcePackages) } \cup
    { <<"XYZ", <<I(720), I(1), I(80), I(25), I(40)>> >>,
      <<"RUN", <<I(15000), I(0), I(75)>> >>,
      <<"SWM", <<I(720), I(0), I(80), I(25), I(40)>> >>,
      <<"WLK", <<I(9000), I(1), I(75), I(0)>> >>,
      <<"SWM", <<I(15000), I(1), I(75)>> >>,
      <<"RUN", <<I(9000), I(1), I(75), I(180)>> >> }

RECURSIVE PackagesOfLen(_)
PackagesOfLen(n) ==
    IF n = 0 THEN {<<>>}
    ELSE { Append(l, p) : l \in PackagesOfLen(n - 1), p \in DriverPackages }

Init ==
    /\ packages \in UNION { PackagesOfLen(n) : n \in 0..MaxPackages }
    /\ idx = 1
    /\ pc = "for"
    /\ training = None
    /\ rp = NoOutcome
    /\ raised = ""
    /\ output = <<>>
    /\ lastCall = NoCall
    /\ prevCall = NoCall
    /\ nCalls = 0

\* training = read_package(workout_type, data): an exception ends the run,
\* with training left as it was.
Assigned(r) ==
    /\ rp' = r
    /\ IF r.raised # ""
       THEN /\ raised' = r.raised
            /\ pc' = "raised"
            /\ UNCHANGED training
       ELSE /\ training' = r.value
            /\ pc' = "main"
            /\ UNCHANGED raised

\* for workout_type, data in packages: training = read_package(...)
ForBody ==
    /\ pc = "for"
    /\ idx <= Len(packages)
    /\ Assigned(read_package(packages[idx][1], packages[idx][2]))
    /\ UNCHANGED <<packages, idx, output, lastCall, prevCall, nCalls>>

\* Mutant: an exception of main is swallowed and the loop goes on.
Looped_swallowing(m) ==
    /\ training' = m.self
    /\ output' = m.stdout
    /\ idx' = idx + 1
    /\ pc' = "for"
    /\ UNCHANGED raised

\* main(training) has ended as m: an exception ends the run, otherwise the
\* loop goes on to the next package.
Looped(m) ==
    /\ training' = m.self
    /\ output' = m.stdout
    /\ IF m.raised # ""
       THEN /\ raised' = m.raised
            /\ pc' = "raised"
            /\ UNCHANGED idx
       ELSE /\ idx' = idx + 1
            /\ pc' = "for"
            /\ UNCHANGED raised

\* main(training), then the next iteration
Main ==
    /\ pc = "main"
    /\ Looped(main(training, output))
    /\ UNCHANGED <<packages, rp, lastCall, prevCall, nCalls>>

\* the loop is exhausted
Exit ==
    /\ pc = "for"
    /\ idx > Len(packages)
    /\ pc' = "exit"
    /\ UNCHANGED <<packages, idx, training, rp, raised, output,
                   lastCall, prevCall, nCalls>>

Next == ForBody \/ Main \/ Exit

Spec == Init /\ [][Next]_vars

----------------------------------------------------------------------------
(* The functions and methods called directly: one read_package call on an  *)
(* input drawn from the sets below, then calls of the record's methods.    *)

Codes == {"SWM", "RUN", "WLK", "XYZ", "run"}

ActionVals == {I(0), I(720), I(9000), I(15000)}

DurationVals == {I(0), I(1), Q(1, 2)}

WeightVals == {I(75), I(80)}

FourthVals == {I(-10), I(0), I(10), I(25), I(180)}

FifthVals == {I(0), I(40)}

ExtraVals == {I(7)}

PosVals(i) ==
    CASE i = 1 -> ActionVals
      [] i = 2 -> DurationVals
      [] i = 3 -> WeightVals
      [] i = 4 -> FourthVals
      [] i = 5 -> FifthVals
      [] OTHER -> ExtraVals

RECURSIVE DataOfLen(_)
DataOfLen(n) ==
    IF n = 0 THEN {<<>>}
    ELSE { Append(d, v) : d \in DataOfLen(n - 1), v \in PosVals(n) }

InitAPI ==
    /\ packages \in { << <<c, d>> >> :
                        c \in Codes,
                        d \in UNION { DataOfLen(n) : n \in 0..MaxDataLen } }
    /\ idx = 1
    /\ pc = "api"
    /\ training = None
    /\ rp = NoOutcome
    /\ raised = ""
    /\ output = <<>>
    /\ lastCall = NoCall
    /\ prevCall = NoCall
    /\ nCalls = 0

Returned(r) ==
    /\ rp' = r
    /\ training' = r.value
    /\ raised' = r.raised
    /\ pc' = IF r.raised # "" THEN "raised" ELSE "obj"

ReadPackage ==
    /\ pc = "api"
    /\ Returned(read_package(packages[1][1], packages[1][2]))
    /\ UNCHANGED <<packages, idx, output, lastCall, prevCall, nCalls>>

\* One call of a method on the record; out is the call's outcome.
Called(op, out) ==
    /\ training' = out.self
    /\ prevCall' = lastCall
    /\ lastCall' = [op |-> op, raised |-> out.raised, value |-> out.value]
    /\ nCalls' = nCalls + 1
    /\ UNCHANGED <<packages, idx, pc, rp, raised, output>>

CallGetDistance ==
    /\ pc = "obj"
    /\ nCalls < MaxCalls
    /\ Called("get_distance", get_distance(training))

CallGetMeanSpeed ==
    /\ pc = "obj"
    /\ nCalls < MaxCalls
    /\ Called("get_mean_speed", get_mean_speed(training))

CallGetSpentCalories ==
    /\ pc = "obj"
    /\ nCalls < MaxCalls
    /\ Called("get_spent_calories", get_spent_calories(training))

CallShowTrainingInfo ==
    /\ pc = "obj"
    /\ nCalls < MaxCalls
    /\ Called("show_training_info", show_training_info(training))

NextAPI ==
    \/ ReadPackage
    \/ CallGetDistance
    \/ CallGetMeanSpeed
    \/ CallGetSpentCalories
    \/ CallShowTrainingInfo

SpecAPI == InitAPI /\ [][NextAPI]_vars

----------------------------------------------------------------------------
(* Properties of read_package, checked under SpecAPI *)

Code == packages[1][1]

Data == packages[1][2]

Supported == {"SWM", "RUN", "WLK"}

Arity(code) == CASE code = "RUN" -> 3 [] code = "WLK" -> 4 [] code = "SWM" -> 5

VariantOf(code) ==
    CASE code = "RUN" -> "Running"
      [] code = "WLK" -> "SportsWalking"
      [] code = "SWM" -> "Swimming"

\* The record the positional binding of d gives for a supported code.
BoundRecord(code, d) ==
    CASE code = "RUN" ->
           [cls |-> "Running", action |-> d[1], duration |-> d[2],
            weight |-> d[3]]
      [] code = "WLK" ->
           [cls |-> "SportsWalking", action |-> d[1], duration |-> d[2],
            weight |-> d[3], height |-> d[4]]
      [] code = "SWM" ->
           [cls |-> "Swimming", action |-> d[1], duration |-> d[2],
            weight |-> d[3], length_pool |-> d[4], count_pool |-> d[5]]

\* C1: for a code other than SWM, RUN, WLK and data of any length,
\* read_package raises the unsupported-type error (NotImplementedError),
\* returns no record and has invoked no constructor.
C1_UnknownCodeFails ==
    (pc # "api" /\ Code \notin Supported) =>
        /\ rp = [raised |-> "NotImplementedError", value |-> None,
                 calls |-> <<>>]
        /\ pc = "raised"
        /\ raised = "NotImplementedError"
        /\ training = None

C1_Witness ==
    /\ pc = "raised"
    /\ Code = "XYZ"
    /\ Len(Data) = 3
    /\ rp.raised = "NotImplementedError"

\* C2: for a supported code and data of the variant's arity, read_package
\* returns a record of the matching variant with the data bound by position.
C2_PositionalBinding ==
    (pc # "api" /\ Code \in Supported /\ Len(Data) = Arity(Code)) =>
        /\ pc = "obj"
        /\ rp.raised = ""
        /\ rp.value = BoundRecord(Code, Data)
        /\ rp.value.cls = VariantOf(Code)
        /\ nCalls = 0 => training = BoundRecord(Code, Data)

C2_Witness ==
    /\ pc = "obj"
    /\ nCalls = 0
    /\ Code = "SWM"
    /\ Data[4] = I(25)
    /\ Data[5] = I(40)
    /\ training.length_pool = I(25)
    /\ training.count_pool = I(40)

\* C7: for a supported code and data whose length is not the variant's
\* arity, read_package raises the argument-count error (TypeError) out of
\* the constructor it called, and returns no record.
C7_ArityMismatch ==
    (pc # "api" /\ Code \in Supported /\ Len(Data) # Arity(Code)) =>
        /\ rp = [raised |-> "TypeError", value |-> None,
                 calls |-> <<VariantOf(Code)>>]
        /\ pc = "raised"
        /\ raised = "TypeError"
        /\ training = None

C7_Witness ==
    /\ pc = "raised"
    /\ Code = "WLK"
    /\ Len(Data) = 3
    /\ rp.raised = "TypeError"
    /\ rp.calls = <<"SportsWalking">>

----------------------------------------------------------------------------
(* Properties of the methods, checked under SpecAPI *)

\* The last call, when it was a call of op, returned v.
LastReturned(op, v) ==
    lastCall.op = op => (lastCall.raised = "" /\ lastCall.value = v)

\* The last call, when it was a call of op, raised e and returned nothing.
LastRaised(op, e) ==
    lastCall.op = op => (lastCall.raised = e /\ lastCall.value = None)

\* C4: on a record of any variant with duration = 0, get_mean_speed raises
\* ZeroDivisionError, and so does show_training_info, which returns no
\* InfoMessage.
C4_ZeroDuration ==
    (pc = "obj" /\ training.duration = Zero) =>
        /\ get_mean_speed(training).raised = "ZeroDivisionError"
        /\ show_training_info(training).raised = "ZeroDivisionError"
        /\ LastRaised("get_mean_speed", "ZeroDivisionError")
        /\ LastRaised("show_training_info", "ZeroDivisionError")

C4_Witness ==
    /\ pc = "obj"
    /\ training.cls = "Swimming"
    /\ training.duration = Zero
    /\ prevCall.op = "get_mean_speed"
    /\ prevCall.raised = "ZeroDivisionError"
    /\ lastCall.op = "show_training_info"
    /\ lastCall.raised = "ZeroDivisionError"

\* C5: on every record read_package returns, get_spent_calories resolves to
\* the variant's own formula, and neither it nor show_training_info raises
\* the base class's NotImplementedError.
C5_CaloriesImplemented ==
    pc = "obj" =>
        /\ get_spent_calories(training).raised # "NotImplementedError"
        /\ show_training_info(training).raised # "NotImplementedError"
        /\ lastCall.raised # "NotImplementedError"
        /\ training.cls = "Running" =>
               get_spent_calories(training)
                   = Running_get_spent_calories(training)
        /\ training.cls = "SportsWalking" =>
               get_spent_calories(training)
                   = SportsWalking_get_spent_calories(training)
        /\ training.cls = "Swimming" =>
               get_spent_calories(training)
                   = Swimming_get_spent_calories(training)

C5_Witness ==
    /\ pc = "obj"
    /\ training.cls = "Running"
    /\ lastCall.op = "get_spent_calories"
    /\ lastCall.raised = ""

\* C6: the four methods leave every field of the record as it was
\* constructed, whatever calls came before, and two successive calls of the
\* same method on the record end alike (same value or same exception).
C6_NoSideEffects ==
    pc = "obj" =>
        /\ training = rp.value
        /\ training = BoundRecord(Code, Data)
        /\ (nCalls >= 2 /\ lastCall.op = prevCall.op) => lastCall = prevCall

C6_Witness ==
    /\ pc = "obj"
    /\ nCalls = 3
    /\ training.cls = "SportsWalking"
    /\ prevCall.op = "show_training_info"
    /\ lastCall.op = "show_training_info"
    /\ lastCall.raised = ""
    /\ lastCall.value.training_type = "SportsWalking"

\* The formulas as the specification writes them.
D138 == Q(138, 100)

D065 == Q(65, 100)

SwimSpeed(t) ==
    QDiv(QDiv(QMul(t.length_pool, t.count_pool), I(1000)), t.duration)

SwimCalories(t) == QMul(QMul(QAdd(SwimSpeed(t), Q(11, 10)), I(2)), t.weight)

StepSpeed(t) == QDiv(QDiv(QMul(t.action, D065), I(1000)), t.duration)

\* floor(x): the integer f with f <= x < f + 1.
Floor(x) == I(x.n \div x.d)

IsFloor(f, x) == f.d = 1 /\ f.n * x.d <= x.n /\ x.n < (f.n + 1) * x.d

WalkCalories(t) ==
    QMul(QAdd(QMul(Q(35, 1000), t.weight),
              QMul(QMul(Floor(QDiv(QMul(StepSpeed(t), StepSpeed(t)),
                                   t.height)),
                        Q(29, 1000)), t.weight)),
         QMul(t.duration, I(60)))

RunCalories(t) ==
    QMul(QDiv(QMul(QSub(QMul(I(18), StepSpeed(t)), I(20)), t.weight),
              I(1000)),
         QMul(t.duration, I(60)))

SwmExample ==
    [cls |-> "Swimming", action |-> I(720), duration |-> I(1),
     weight |-> I(80), length_pool |-> I(25), count_pool |-> I(40)]

WlkExample ==
    [cls |-> "SportsWalking", action |-> I(9000), duration |-> I(1),
     weight |-> I(75), height |-> I(180)]

RunExample ==
    [cls |-> "Running", action |-> I(15000), duration |-> I(1),
     weight |-> I(75)]

\* C8: on a Swimming record the distance is action * 1.38 / 1000 whatever
\* the pool fields; with duration # 0 the speed is
\* (length_pool * count_pool / 1000) / duration and the calories are
\* (speed + 1.1) * 2 * weight, whatever the action; SWM [720, 1, 80, 25, 40]
\* gives 0.9936 km, 1.0 km/h and 336.0 kcal.
C8_Swimming ==
    (pc = "obj" /\ training.cls = "Swimming") =>
        /\ get_distance(training).raised = ""
        /\ get_distance(training).value
               = QDiv(QMul(training.action, D138), I(1000))
        /\ LastReturned("get_distance",
                        QDiv(QMul(training.action, D138), I(1000)))
        /\ \A lp \in FourthVals, cp \in FifthVals :
               get_distance([training EXCEPT !.length_pool = lp,
                                             !.count_pool = cp]).value
                   = get_distance(training).value
        /\ training.duration # Zero =>
               /\ get_mean_speed(training).raised = ""
               /\ get_mean_speed(training).value = SwimSpeed(training)
               /\ get_spent_calories(training).raised = ""
               /\ get_spent_calories(training).value = SwimCalories(training)
               /\ LastReturned("get_mean_speed", SwimSpeed(training))
               /\ LastReturned("get_spent_calories", SwimCalories(training))
               /\ \A a \in ActionVals :
                      /\ get_mean_speed([training EXCEPT !.action = a]).value
                             = get_mean_speed(training).value
                      /\ get_spent_calories(
                             [training EXCEPT !.action = a]).value
                             = get_spent_calories(training).value
        /\ training = SwmExample =>
               /\ get_distance(training).value = Q(9936, 10000)
               /\ get_mean_speed(training).value = I(1)
               /\ get_spent_calories(training).value = I(336)
               /\ LastReturned("show_training_info",
                               InfoMessage("Swimming", I(1), Q(9936, 10000),
                                           I(1), I(336)))

C8_Witness ==
    /\ pc = "obj"
    /\ training = SwmExample
    /\ prevCall.op = "get_spent_calories"
    /\ prevCall.value = I(336)
    /\ lastCall.op = "show_training_info"
    /\ lastCall.value.speed = I(1)

\* C9: on a SportsWalking record with duration # 0 and height # 0 the
\* calories are (0.035 * weight + floor(speed^2 / height) * 0.029 * weight)
\* * (duration * 60) with speed = action * 0.65 / 1000 / duration and the
\* floor taken toward negative infinity; with 0 <= speed^2 < height they are
\* 0.035 * weight * duration * 60; WLK [9000, 1, 75, 180] gives 157.5 kcal.
\* With duration = 0 or height = 0 the call raises ZeroDivisionError.
C9_WalkingCalories ==
    (pc = "obj" /\ training.cls = "SportsWalking") =>
        IF training.duration = Zero \/ training.height = Zero
        THEN /\ get_spent_calories(training).raised = "ZeroDivisionError"
             /\ LastRaised("get_spent_calories", "ZeroDivisionError")
        ELSE LET sq == QMul(StepSpeed(training), StepSpeed(training))
                 x == QDiv(sq, training.height)
             IN  /\ IsFloor(Floor(x), x)
                 /\ get_mean_speed(training).value = StepSpeed(training)
                 /\ get_spent_calories(training).raised = ""
                 /\ get_spent_calories(training).value
                        = WalkCalories(training)
                 /\ LastReturned("get_spent_calories", WalkCalories(training))
                 /\ (~QLess(sq, Zero) /\ QLess(sq, training.height)) =>
                        get_spent_calories(training).value
                            = QMul(QMul(QMul(Q(35, 1000), training.weight),
                                        training.duration), I(60))
                 /\ training = WlkExample =>
                        get_spent_calories(training).value = Q(1575, 10)

C9_Witness ==
    /\ pc = "obj"
    /\ training = [WlkExample EXCEPT !.height = I(-10)]
    /\ Floor(QDiv(QMul(StepSpeed(training), StepSpeed(training)),
                  training.height)) = I(-4)
    /\ lastCall.op = "get_spent_calories"
    /\ lastCall.value = Q(-3645, 10)

\* The formulas of C10, which hold whatever the example's figures.
RunningFormulas ==
    (pc = "obj" /\ training.cls = "Running") =>
        /\ get_distance(training).raised = ""
        /\ get_distance(training).value
               = QDiv(QMul(training.action, D065), I(1000))
        /\ LastReturned("get_distance",
                        QDiv(QMul(training.action, D065), I(1000)))
        /\ training.duration # Zero =>
               /\ get_mean_speed(training).raised = ""
               /\ get_mean_speed(training).value
                      = QDiv(get_distance(training).value, training.duration)
               /\ get_spent_calories(training).raised = ""
               /\ get_spent_calories(training).value = RunCalories(training)
               /\ LastReturned("get_mean_speed", StepSpeed(training))
               /\ LastReturned("get_spent_calories", RunCalories(training))

RunningExample(kcal) ==
    (pc = "obj" /\ training = RunExample) =>
        /\ get_distance(training).value = Q(975, 100)
        /\ get_mean_speed(training).value = Q(975, 100)
        /\ get_spent_calories(training).value = kcal

\* C10 as stated: on a Running record with duration # 0 the distance is
\* action * 0.65 / 1000, the speed distance / duration and the calories
\* ((18 * speed) - 20) * weight / 1000 * (duration * 60); RUN [15000, 1, 75]
\* gives 9.75 km, 9.75 km/h and 707.625 kcal.
C10_Original == RunningFormulas /\ RunningExample(Q(707625, 1000))

\* C10 as amended: the same formulas; RUN [15000, 1, 75] gives 9.75 km,
\* 9.75 km/h and 699.75 kcal.
C10_Running == RunningFormulas /\ RunningExample(Q(69975, 100))

C10_Witness ==
    /\ pc = "obj"
    /\ training = RunExample
    /\ lastCall.op = "show_training_info"
    /\ lastCall.value = InfoMessage("Running", I(1), Q(975, 100),
                                    Q(975, 100), Q(69975, 100))

----------------------------------------------------------------------------
(* Properties of the driver loop, checked under Spec *)

Unsupported(p) == p[1] \notin Supported

\* The entry cannot be processed: its code is unsupported, its data do not
\* match the variant's arity, its duration is 0, or it is a walk of height 0.
Failing(p) ==
    \/ p[1] \notin Supported
    \/ Len(p[2]) # Arity(p[1])
    \/ p[2][2] = Zero
    \/ (p[1] = "WLK" /\ p[2][4] = Zero)

\* The index of the first package that is Bad, or one past the last package.
FirstWhere(Bad(_)) ==
    IF \E i \in 1..Len(packages) : Bad(packages[i])
    THEN CHOOSE i \in 1..Len(packages) :
             /\ Bad(packages[i])
             /\ \A j \in 1..(i - 1) : ~Bad(packages[j])
    ELSE Len(packages) + 1

NoLine == [training_type |-> "NoneType"]

SummaryLine(info) ==
    IF info.raised # "" THEN NoLine ELSE get_message(info.value)

RecordLine(r) ==
    IF r.raised # "" THEN NoLine ELSE SummaryLine(show_training_info(r.value))

\* The line the entry's summary renders to, if it has one.
Rendered(p) == RecordLine(read_package(p[1], p[2]))

\* The run prints the lines of the entries before entry k, in input order,
\* halts at entry k when there is one, and prints nothing after.
PrintsUpTo(k) ==
    /\ idx <= k
    /\ Len(output) <= k - 1
    /\ Len(output) = idx - 1
    /\ \A i \in 1..Len(output) : output[i] = Rendered(packages[i])
    /\ pc \in {"exit", "raised"} => Len(output) = k - 1
    /\ pc = "raised" => (idx = k /\ k <= Len(packages))
    /\ pc = "exit" => (k = Len(packages) + 1 /\ Len(output) = Len(packages))

\* C3 as stated: the lines printed are the rendered summaries of the entries
\* before the first entry with an unsupported code, one per entry in input
\* order; the run halts there; with every code supported there are as many
\* lines as packages.
C3_Original == PrintsUpTo(FirstWhere(Unsupported))

\* C3 as amended: the lines printed are the rendered summaries of the
\* entries before the first entry that fails (unsupported code, argument
\* count other than the variant's arity, duration 0, or height 0 of a walk),
\* one per entry in input order; the run halts there with that entry's
\* error; when no entry fails there are as many lines as packages.
C3_DriverOutput ==
    /\ PrintsUpTo(FirstWhere(Failing))
    /\ pc = "raised" =>
           raised = (IF Unsupported(packages[idx]) THEN "NotImplementedError"
                     ELSE IF Len(packages[idx][2]) # Arity(packages[idx][1])
                          THEN "TypeError"
                          ELSE "ZeroDivisionError")

C3_Witness ==
    /\ pc = "raised"
    /\ Len(packages) = 3
    /\ idx = 2
    /\ packages[1] = SourcePackages[1]
    /\ packages[2][1] = "XYZ"
    /\ packages[3] = SourcePackages[2]
    /\ raised = "NotImplementedError"
    /\ output = << [training_type |-> "Swimming",
                    duration |-> <<"", 1, 0>>,
                    distance |-> <<"", 0, 994>>,
                    speed |-> <<"", 1, 0>>,
                    calories |-> <<"", 336, 0>>] >>

====
